---- MODULE Spec2Model ----
(***************************************************************************)
(* Model of the graph-ranking core of graph_ranker.py: the GraphRanker     *)
(* object (graph, rankings, metrics, _edge_count) and its operations       *)
(* build_dependency_graph, calculate_pagerank,                             *)
(* distribute_ranking_to_definitions, get_top_files_by_rank and reset.     *)
(*                                                                         *)
(* Representation.                                                         *)
(*   - A file path is a natural number: the index of the path in the       *)
(*     ascending order of the path strings (1 is "a.py", 2 is "b.py" ...). *)
(*   - An identifier is the sequence of its ASCII codes, so that the       *)
(*     naming heuristics and the string order are computed, not assumed.   *)
(*   - Optional[T] is a sequence of length at most one: None is << >>.     *)
(*   - A dict is a sequence of [k, v] records in insertion order.          *)
(*   - Multipliers are decimal fixed point with MultScale units in 1.0,    *)
(*     square roots have SqrtScale units in 1.0, an edge weight therefore  *)
(*     has MultScale * SqrtScale units in 1.0, and a rank has RankScale    *)
(*     units in 1.0.                                                       *)
(***************************************************************************)
EXTENDS Integers, Sequences, FiniteSets, TLC

\* ------------------------------------------------------------ fixed point
MultScale == 10 * 10
SqrtScale == 10 * 10
RankScale == 10000 * 10000
WeightScale == MultScale * SqrtScale

\* ------------------------------------------------------------ bounds
\* Number of file paths of the stateful specifications.
NFiles == 3
\* Largest number of reference tags of one symbol in one file.
MaxRefs == 4
\* Number of distinct defining files tried around the threshold of the
\* too-many-definitions penalty (the threshold, plus or minus this many).
DefSpread == 2

\* Tag lists of at most PermLen tags are tried in every order.
PermLen == 4

\* ------------------------------------------------------------ generic helpers
None == << >>
Some(v) == << v >>
IsNone(o) == o = << >>
Val(o) == o[1]

Abs(i) == IF i < 0 THEN -i ELSE i
Min(a, b) == IF a <= b THEN a ELSE b
Max(a, b) == IF a >= b THEN a ELSE b

RECURSIVE SumSeq(_)
SumSeq(s) == IF s = << >> THEN 0 ELSE Head(s) + SumSeq(Tail(s))

Range(s) == { s[i] : i \in 1..Len(s) }

Contains(s, e) == \E i \in 1..Len(s) : s[i] = e

RECURSIVE Dedup(_)
\* The distinct elements of s in the order of their first occurrence
\* (the key order of a dict or Counter filled from s).
Dedup(s) ==
    IF s = << >> THEN << >>
    ELSE LET d == Dedup(SubSeq(s, 1, Len(s) - 1))
             e == s[Len(s)]
         IN  IF Contains(d, e) THEN d ELSE Append(d, e)

Count(s, e) == Cardinality({ i \in 1..Len(s) : s[i] = e })

\* Lexicographic order of two sequences of integers (Python's order of str
\* by code point).
RECURSIVE StrLess(_, _)
StrLess(s, t) ==
    IF t = << >> THEN FALSE
    ELSE IF s = << >> THEN TRUE
    ELSE IF Head(s) # Head(t) THEN Head(s) < Head(t)
    ELSE StrLess(Tail(s), Tail(t))

RECURSIVE Flatten(_)
\* The concatenation of a sequence of sequences.
Flatten(ss) == IF ss = << >> THEN << >> ELSE Head(ss) \o Flatten(Tail(ss))

RECURSIVE EagerFrom(_, _)
EagerFrom(s, i) == IF i > Len(s) THEN << >> ELSE << s[i] >> \o EagerFrom(s, i + 1)
\* The sequence s with every element evaluated (the value is s itself).
Eager(s) == EagerFrom(s, 1)

RECURSIVE SortedFiles(_)
\* The files of the finite set S in ascending order.
SortedFiles(S) ==
    IF S = {} THEN << >>
    ELSE LET m == CHOOSE x \in S : \A y \in S : x <= y
         IN  << m >> \o SortedFiles(S \ {m})

RECURSIVE SortedIdents(_)
\* The identifiers of the finite set S in ascending string order.
SortedIdents(S) ==
    IF S = {} THEN << >>
    ELSE LET m == CHOOSE x \in S : \A y \in S \ {x} : StrLess(x, y)
         IN  << m >> \o SortedIdents(S \ {m})

RECURSIVE MulDivQR(_, _, _)
\* << q, r >> with a * b = q * c + r and 0 <= r < c, for 0 <= a and
\* 0 <= b <= c <= RankScale: long division over the decimal digits of a, so
\* that no intermediate product leaves 32 bits.
MulDivQR(a, b, c) ==
    IF a < 10 THEN << (a * b) \div c, (a * b) % c >>
    ELSE LET hi == MulDivQR(a \div 10, b, c)
             t == hi[2] * 10 + (a % 10) * b
         IN  << hi[1] * 10 + t \div c, t % c >>
\* floor(a * b / c).
MulDiv(a, b, c) == MulDivQR(a, b, c)[1]

\* ------------------------------------------------------------ characters
Underscore == 95
Hyphen == 45
UpperA == 65
UpperZ == 90
LowerA == 97
LowerZ == 122

isupper(c) == c \in UpperA..UpperZ
islower(c) == c \in LowerA..LowerZ
isalpha(c) == isupper(c) \/ islower(c)

\* The identifiers of the model.
foo == << 102, 111, 111 >>
_foo == << Underscore >> \o foo
bar == << 98, 97, 114 >>
process_data == << 112, 114, 111, 99, 101, 115, 115, Underscore, 100, 97, 116, 97 >>

\* ------------------------------------------------------------ Tag
Tag(rel_fname, name, kind) == [rel_fname |-> rel_fname, name |-> name, kind |-> kind]

\* ------------------------------------------------------------ Identifier Importance Model
MentionBoost == 10
LongBoost == 10
LongLen == 8
\* x * 0.1 on a decimal fixed-point number.
TimesTenth(x) == x \div 10

is_snake(ident) ==
    (\E i \in 1..Len(ident) : ident[i] = Underscore) /\ (\E i \in 1..Len(ident) : isalpha(ident[i]))
is_kebab(ident) ==
    (\E i \in 1..Len(ident) : ident[i] = Hyphen) /\ (\E i \in 1..Len(ident) : isalpha(ident[i]))
is_camel(ident) ==
    (\E i \in 1..Len(ident) : isupper(ident[i])) /\ (\E i \in 1..Len(ident) : islower(ident[i]))
startswith_underscore(ident) == Len(ident) >= 1 /\ ident[1] = Underscore

\* `elif` in place of the second `if`: a mentioned name gets no long-name boost.
MultiplierExclusive(ident, mentioned_idents) ==
    LET m0 == MultScale
        m1 == IF ident \in mentioned_idents THEN m0 * MentionBoost ELSE m0
        m2 == IF ident \notin mentioned_idents
                 /\ (is_snake(ident) \/ is_kebab(ident) \/ is_camel(ident))
                 /\ Len(ident) >= LongLen
              THEN m1 * LongBoost ELSE m1
        m3 == IF startswith_underscore(ident) THEN TimesTenth(m2) ELSE m2
    IN  m3
\* `multiplier = 0.1` in place of `multiplier *= 0.1` for a private name.
MultiplierPrivateFlat(ident, mentioned_idents) ==
    LET m0 == MultScale
        m1 == IF ident \in mentioned_idents THEN m0 * MentionBoost ELSE m0
        m2 == IF (is_snake(ident) \/ is_kebab(ident) \/ is_camel(ident)) /\ Len(ident) >= LongLen
              THEN m1 * LongBoost ELSE m1
    IN  IF startswith_underscore(ident) THEN TimesTenth(m0) ELSE m2
\* GraphRanker._calculate_identifier_multiplier, in MultScale units.
_calculate_identifier_multiplier(ident, mentioned_idents) ==
    LET m0 == MultScale
        m1 == IF ident \in mentioned_idents THEN m0 * MentionBoost ELSE m0
        m2 == IF (is_snake(ident) \/ is_kebab(ident) \/ is_camel(ident)) /\ Len(ident) >= LongLen
              THEN m1 * LongBoost ELSE m1
        m3 == IF startswith_underscore(ident) THEN TimesTenth(m2) ELSE m2
    IN  m3

\* ------------------------------------------------------------ Dependency Graph Builder
\* math.sqrt(n) in SqrtScale units, rounded down.
sqrt(n) ==
    CHOOSE k \in 0..(n * SqrtScale) :
        k * k <= n * SqrtScale * SqrtScale /\ (k + 1) * (k + 1) > n * SqrtScale * SqrtScale

\* The weight 0.1 of a self-edge (line 186), in WeightScale units.
SelfWeight == TimesTenth(WeightScale)
\* The boost of an edge that leaves a chat file (line 218).
ChatBoost == 50
\* The number of defining files above which a symbol is penalised (line 205).
TooManyDefs == 5

Edge(src, dst, weight, ident) == [src |-> src, dst |-> dst, weight |-> weight, ident |-> ident]

\* defines: the keys in insertion order, and the set of files of one key.
DefineKeys(tags) ==
    Dedup([ i \in 1..Len(SelectSeq(tags, LAMBDA t : t.kind = "def")) |->
              SelectSeq(tags, LAMBDA t : t.kind = "def")[i].name ])
Definers(tags, ident) ==
    { tags[i].rel_fname : i \in { j \in 1..Len(tags) : tags[j].kind = "def" /\ tags[j].name = ident } }
\* A single pass that links a reference only to definitions seen before it.
ReferencesAfterDefinition(tags, ident) ==
    LET seen(j) == \E i \in 1..j : tags[i].kind = "def" /\ tags[i].name = ident
        at == { j \in 1..Len(tags) : tags[j].kind = "ref" /\ tags[j].name = ident /\ seen(j) }
        refs == SelectSeq([ j \in 1..Len(tags) |-> [tag |-> tags[j], keep |-> j \in at] ],
                          LAMBDA x : x.keep)
    IN  [ i \in 1..Len(refs) |-> refs[i].tag.rel_fname ]
\* references[ident]: the referencing files, one entry per reference tag.
References(tags, ident) ==
    LET refs == SelectSeq(tags, LAMBDA t : t.kind = "ref" /\ t.name = ident)
    IN  [ i \in 1..Len(refs) |-> refs[i].rel_fname ]
ReferenceKeys(tags) == { tags[i].name : i \in { j \in 1..Len(tags) : tags[j].kind = "ref" } }

\* The order in which a Python set of files, or of identifiers, is iterated:
\* the model iterates in ascending order.
IterFiles(S) == SortedFiles(S)
IterIdents(S) == SortedIdents(S)

\* A build that adds no self-edge.
NoSelfEdges(tags) == << >>

\* Lines 180-188: a self-edge for every definer of a symbol that no tag references.
SelfEdges(tags) ==
    LET keys == DefineKeys(tags)
    IN  Flatten([ i \in 1..Len(keys) |->
            IF keys[i] \in ReferenceKeys(tags) THEN << >>
            ELSE LET definers == IterFiles(Definers(tags, keys[i]))
                 IN  [ j \in 1..Len(definers) |->
                         Edge(definers[j], definers[j], SelfWeight, keys[i]) ] ])

\* `>=` in place of `>` at the threshold.
BaseMultiplierAtThreshold(ident, num_definers, mentioned_idents) ==
    LET base_multiplier == _calculate_identifier_multiplier(ident, mentioned_idents)
    IN  IF num_definers >= TooManyDefs THEN TimesTenth(base_multiplier) ELSE base_multiplier

\* Lines 201-206: the multiplier of a connected identifier.
BaseMultiplier(ident, num_definers, mentioned_idents) ==
    LET base_multiplier == _calculate_identifier_multiplier(ident, mentioned_idents)
    IN  IF num_definers > TooManyDefs THEN TimesTenth(base_multiplier) ELSE base_multiplier

\* No dampening: the weight grows with the number of references itself.
FinalWeightLinear(base_multiplier, referencer, num_refs, chat_files) ==
    LET multiplier == IF referencer \in chat_files THEN base_multiplier * ChatBoost
                      ELSE base_multiplier
    IN  multiplier * num_refs * SqrtScale

\* Lines 214-223: the weight of one edge.
FinalWeight(base_multiplier, referencer, num_refs, chat_files) ==
    LET multiplier == IF referencer \in chat_files THEN base_multiplier * ChatBoost
                      ELSE base_multiplier
    IN  multiplier * sqrt(num_refs)

\* One edge per reference tag instead of one per referencing file.
IdentEdgesPerReference(tags, ident, chat_files, mentioned_idents) ==
    LET definers == IterFiles(Definers(tags, ident))
        base_multiplier == BaseMultiplier(ident, Len(definers), mentioned_idents)
        referencers == References(tags, ident)
    IN  Flatten([ i \in 1..Len(referencers) |->
            [ j \in 1..Len(definers) |->
                Edge(referencers[i], definers[j],
                     FinalWeight(base_multiplier, referencers[i], 1, chat_files),
                     ident) ] ])

\* G.add_edge(definer, referencer, ...): the edge drawn from the definition
\* to the reference.
IdentEdgesReversed(tags, ident, chat_files, mentioned_idents) ==
    LET definers == IterFiles(Definers(tags, ident))
        base_multiplier == BaseMultiplier(ident, Len(definers), mentioned_idents)
        referencers == Dedup(References(tags, ident))
    IN  Flatten([ i \in 1..Len(referencers) |->
            [ j \in 1..Len(definers) |->
                Edge(definers[j], referencers[i],
                     FinalWeight(base_multiplier, referencers[i],
                                 Count(References(tags, ident), referencers[i]), chat_files),
                     ident) ] ])

\* Lines 198-226: the edges of one connected identifier.
IdentEdges(tags, ident, chat_files, mentioned_idents) ==
    LET definers == IterFiles(Definers(tags, ident))
        base_multiplier == BaseMultiplier(ident, Len(definers), mentioned_idents)
        referencers == Dedup(References(tags, ident))
    IN  Flatten([ i \in 1..Len(referencers) |->
            [ j \in 1..Len(definers) |->
                Edge(referencers[i], definers[j],
                     FinalWeight(base_multiplier, referencers[i],
                                 Count(References(tags, ident), referencers[i]), chat_files),
                     ident) ] ])

ConnectedEdges(tags, chat_files, mentioned_idents) ==
    LET connected_idents == IterIdents(Range(DefineKeys(tags)) \cap ReferenceKeys(tags))
    IN  Flatten([ i \in 1..Len(connected_idents) |->
            IdentEdges(tags, connected_idents[i], chat_files, mentioned_idents) ])

\* The nodes of a MultiDiGraph in the order add_edge created them.
NodesOf(edges) == Dedup(Flatten([ i \in 1..Len(edges) |-> << edges[i].src, edges[i].dst >> ]))

Graph(edges) == [nodes |-> NodesOf(edges), edges |-> edges]

\* GraphRanker.build_dependency_graph: the graph it builds and returns.
BuildGraph(tags, chat_files, mentioned_idents) ==
    Graph(SelfEdges(tags) \o ConnectedEdges(tags, chat_files, mentioned_idents))

\* ------------------------------------------------------------ PageRank solver
\* nx.pagerank as calculate_pagerank calls it (weight='weight'): power iteration
\* on the row-stochastic graph, in RankScale fixed point.
Alpha == 85
Percent == 10 * 10
MaxIterDefault == 100
\* tol = 1e-6 in RankScale units.
Tol == RankScale \div (1000 * 1000)

DictKeys(d) == { d[i].k : i \in 1..Len(d) }
DictGet(d, key, default) ==
    IF key \in DictKeys(d) THEN d[CHOOSE i \in 1..Len(d) : d[i].k = key].v ELSE default
DictSum(d) == SumSeq([ i \in 1..Len(d) |-> d[i].v ])

OutEdges(g, n) == SelectSeq(g.edges, LAMBDA e : e.src = n)
InEdges(g, n) == SelectSeq(g.edges, LAMBDA e : e.dst = n)
OutWeight(g, n) == SumSeq([ i \in 1..Len(OutEdges(g, n)) |-> OutEdges(g, n)[i].weight ])

TimesAlpha(x) == MulDiv(x, Alpha, Percent)
TimesOneMinusAlpha(x) == MulDiv(x, Percent - Alpha, Percent)

\* Rank vectors are sequences aligned with g.nodes.
NodeIndex(g, n) == CHOOSE i \in 1..Len(g.nodes) : g.nodes[i] = n

\* A personalization or dangling dict normalised to sum 1.0 over the nodes.
Normalised(g, d) ==
    Eager([ i \in 1..Len(g.nodes) |-> MulDiv(RankScale, DictGet(d, g.nodes[i], 0), DictSum(d)) ])
Uniform(g) == Eager([ i \in 1..Len(g.nodes) |-> RankScale \div Len(g.nodes) ])

\* nx.stochastic_graph: every edge with the positions of its ends in g.nodes
\* and the total weight that leaves its source.
StochasticGraph(g) ==
    Eager([ i \in 1..Len(g.edges) |->
        [src |-> NodeIndex(g, g.edges[i].src), dst |-> NodeIndex(g, g.edges[i].dst),
         weight |-> g.edges[i].weight, total |-> OutWeight(g, g.edges[i].src)] ])
\* dangling_nodes, as a flag per node.
IsDangling(g) == Eager([ i \in 1..Len(g.nodes) |-> OutWeight(g, g.nodes[i]) = 0 ])

\* A sweep that drops the rank of the dangling nodes instead of
\* redistributing it.
PageRankStepNoDangling(W, is_dangling, xlast, p, dangling_weights) ==
    Eager([ n \in 1..Len(xlast) |->
        SumSeq([ i \in 1..Len(W) |->
            IF W[i].dst = n
            THEN MulDiv(TimesAlpha(xlast[W[i].src]), W[i].weight, W[i].total)
            ELSE 0 ])
        + TimesOneMinusAlpha(p[n]) ])

\* One sweep of the power iteration.
PageRankStep(W, is_dangling, xlast, p, dangling_weights) ==
    LET danglesum == TimesAlpha(SumSeq([ i \in 1..Len(xlast) |->
                         IF is_dangling[i] THEN xlast[i] ELSE 0 ]))
    IN  Eager([ n \in 1..Len(xlast) |->
            SumSeq([ i \in 1..Len(W) |->
                IF W[i].dst = n
                THEN MulDiv(TimesAlpha(xlast[W[i].src]), W[i].weight, W[i].total)
                ELSE 0 ])
            + MulDiv(danglesum, dangling_weights[n], RankScale)
            + TimesOneMinusAlpha(p[n]) ])

PageRankErr(x, xlast) == SumSeq([ i \in 1..Len(x) |-> Abs(x[i] - xlast[i]) ])

\* The state of the loop `for _ in range(max_iter)`: the vector, whether
\* err < N * tol was met, and the iterations left.
SweepOnce(W, is_dangling, st, p, dangling_weights) ==
    LET x == PageRankStep(W, is_dangling, st.x, p, dangling_weights)
    IN  [x |-> x, converged |-> PageRankErr(x, st.x) < Len(x) * Tol, left |-> st.left - 1]

\* The loop is run in blocks of BlockLen sweeps, to bound the evaluation depth.
BlockLen == 10
RECURSIVE Sweeps(_, _, _, _, _, _)
Sweeps(W, is_dangling, st, p, dangling_weights, n) ==
    IF n = 0 \/ st.left = 0 \/ st.converged THEN st
    ELSE LET next == SweepOnce(W, is_dangling, st, p, dangling_weights)
         IN  IF next.converged THEN next
             ELSE Sweeps(W, is_dangling, next, p, dangling_weights, n - 1)

RECURSIVE PowerIteration(_, _, _, _, _)
PowerIteration(W, is_dangling, st, p, dangling_weights) ==
    IF st.converged \/ st.left = 0 THEN st
    ELSE LET next == Sweeps(W, is_dangling, st, p, dangling_weights, BlockLen)
         IN  IF next.converged \/ next.left = 0 THEN next
             ELSE PowerIteration(W, is_dangling, next, p, dangling_weights)

\* nx.pagerank(G, alpha, personalization, dangling, max_iter, tol, weight): personalization
\* and dangling are Optional dicts; the outcome is the rank dict or the exception raised.
pagerank(g, personalization, dangling, max_iter) ==
    IF Len(g.nodes) = 0 THEN [status |-> "ok", val |-> << >>]
    ELSE IF ~IsNone(personalization) /\ DictSum(Val(personalization)) = 0
    THEN [status |-> "ZeroDivisionError", val |-> << >>]
    ELSE IF ~IsNone(dangling) /\ DictSum(Val(dangling)) = 0
    THEN [status |-> "ZeroDivisionError", val |-> << >>]
    ELSE LET p == IF IsNone(personalization) THEN Uniform(g)
                  ELSE Normalised(g, Val(personalization))
             dangling_weights == IF IsNone(dangling) THEN p ELSE Normalised(g, Val(dangling))
             end == PowerIteration(StochasticGraph(g), IsDangling(g),
                                   [x |-> Uniform(g), converged |-> FALSE, left |-> max_iter],
                                   p, dangling_weights)
         IN  IF end.converged
             THEN [status |-> "ok",
                   val |-> Eager([ i \in 1..Len(g.nodes) |-> [k |-> g.nodes[i], v |-> end.x[i]] ])]
             ELSE [status |-> "PowerIterationFailedConvergence", val |-> << >>]

\* ------------------------------------------------------------ Rank Calculator
\* What a call returns or raises: raised is "" for a normal return.
Return(val) == [raised |-> "", val |-> val]
Raise(exc) == [raised |-> exc, val |-> << >>]

\* `if not self.graph:` in place of `if self.graph is None:`.
GraphFalsy(g) == IsNone(g) \/ Val(g).nodes = << >>
\* Line 387: the guard of calculate_pagerank.
GraphMissing(g) == IsNone(g)

\* The personalization handed on as it came, entries of other files included.
PersArgsUnfiltered(g, personalization) ==
    IF IsNone(personalization) \/ Val(personalization) = << >> THEN None
    ELSE personalization

\* Lines 394-405: the personalization handed to the solver, None when the
\* argument is None or empty or names no node of the graph.
PersArgs(g, personalization) ==
    IF IsNone(personalization) \/ Val(personalization) = << >> THEN None
    ELSE LET valid_personalization ==
                 SelectSeq(Val(personalization), LAMBDA it : it.k \in Range(g.nodes))
         IN  IF valid_personalization = << >> THEN None ELSE Some(valid_personalization)

\* A cascade that retries after any failure of Tier 1.
CascadeRetryAlways(tier1, tier2, max_iter) ==
    IF tier1.status = "ok"
    THEN [raised |-> "", rankings |-> tier1.val, iterations_used |-> max_iter,
          tiers |-> << tier1 >>]
    ELSE IF tier2.status = "ok"
    THEN [raised |-> "", rankings |-> tier2.val, iterations_used |-> max_iter,
          tiers |-> << tier1, tier2 >>]
    ELSE [raised |-> "", rankings |-> << >>, iterations_used |-> 0,
          tiers |-> << tier1, tier2 >>]

\* Lines 410-446: the fallback cascade around the solver. tiers lists the
\* outcome of each solver call made, in order.
Cascade(tier1, tier2, max_iter) ==
    IF tier1.status = "ok"
    THEN [raised |-> "", rankings |-> tier1.val, iterations_used |-> max_iter,
          tiers |-> << tier1 >>]
    ELSE IF tier1.status = "ZeroDivisionError"
    THEN IF tier2.status = "ok"
         THEN [raised |-> "", rankings |-> tier2.val, iterations_used |-> max_iter,
               tiers |-> << tier1, tier2 >>]
         ELSE IF tier2.status = "ZeroDivisionError"
         THEN [raised |-> "", rankings |-> << >>, iterations_used |-> 0,
               tiers |-> << tier1, tier2 >>]
         ELSE [raised |-> tier2.status, rankings |-> << >>, iterations_used |-> 0,
               tiers |-> << tier1, tier2 >>]
    ELSE [raised |-> "", rankings |-> << >>, iterations_used |-> 0,
          tiers |-> << tier1 >>]

CalculateOutcome(g, personalization, max_iter) ==
    Cascade(pagerank(g, PersArgs(g, personalization), PersArgs(g, personalization), max_iter),
            pagerank(g, None, None, max_iter), max_iter)

\* Lines 466-476: the metrics stored after a calculation.
GraphMetrics(g, iterations_used) ==
    [nodes |-> Len(g.nodes), edges |-> Len(g.edges),
     self_loops |-> Len(SelectSeq(g.edges, LAMBDA e : e.src = e.dst)),
     pagerank_iterations |-> iterations_used]

\* ------------------------------------------------------------ Rank Distributor
\* graph.out_edges(src): the edges that leave src, grouped by target in the
\* order the targets were first linked.
out_edges(g, src) ==
    LET out == OutEdges(g, src)
        nbrs == Dedup([ i \in 1..Len(out) |-> out[i].dst ])
    IN  Flatten([ i \in 1..Len(nbrs) |-> SelectSeq(out, LAMBDA e : e.dst = nbrs[i]) ])

\* `//` in place of `/`: the share of the edge rounded down to a whole number.
EdgeRankFloorDiv(src_rank, weight, total_weight) == src_rank * (weight \div total_weight)
\* Line 529: src_rank * weight / total_weight.
EdgeRank(src_rank, weight, total_weight) ==
    IF src_rank >= 0 THEN MulDiv(src_rank, weight, total_weight)
    ELSE -MulDiv(-src_rank, weight, total_weight)

\* Lines 514-534: what one node adds to ranked_definitions, edge by edge.
NodeContributions(g, rankings, src_node) ==
    LET src_rank == DictGet(rankings, src_node, 0)
        edges == out_edges(g, src_node)
        total_weight == SumSeq([ i \in 1..Len(edges) |-> edges[i].weight ])
    IN  IF src_rank = 0 \/ total_weight = 0 THEN << >>
        ELSE [ i \in 1..Len(edges) |->
                 [k |-> << edges[i].dst, edges[i].ident >>,
                  v |-> EdgeRank(src_rank, edges[i].weight, total_weight)] ]

Contributions(g, rankings) ==
    Flatten([ i \in 1..Len(g.nodes) |-> NodeContributions(g, rankings, g.nodes[i]) ])

\* `=` in place of `+=`: the last contribution to a key replaces the others.
AccumulateOverwrite(contribs) ==
    LET keys == Dedup([ i \in 1..Len(contribs) |-> contribs[i].k ])
    IN  [ i \in 1..Len(keys) |->
            [k |-> keys[i],
             v |-> contribs[CHOOSE j \in 1..Len(contribs) :
                               /\ contribs[j].k = keys[i]
                               /\ \A l \in (j + 1)..Len(contribs) : contribs[l].k # keys[i]].v] ]
\* ranked_definitions: one entry per key, the contributions to the key added up.
Accumulate(contribs) ==
    LET keys == Dedup([ i \in 1..Len(contribs) |-> contribs[i].k ])
    IN  [ i \in 1..Len(keys) |->
            [k |-> keys[i],
             v |-> SumSeq([ j \in 1..Len(contribs) |->
                       IF contribs[j].k = keys[i] THEN contribs[j].v ELSE 0 ])] ]

\* Line 539: the sort key (-rank, (file, ident)).
KeyLess(a, b) == a[1] < b[1] \/ (a[1] = b[1] /\ StrLess(a[2], b[2]))
\* The sort key -rank alone.
RankOnlyLess(a, b) == a.v > b.v
DefinitionLess(a, b) == a.v > b.v \/ (a.v = b.v /\ KeyLess(a.k, b.k))

RECURSIVE InsertDefinition(_, _)
InsertDefinition(s, e) ==
    IF s = << >> THEN << e >>
    ELSE IF DefinitionLess(e, Head(s)) THEN << e >> \o s
    ELSE << Head(s) >> \o InsertDefinition(Tail(s), e)

RECURSIVE SortDefinitions(_)
\* Lines 537-541: sorted(ranked_definitions.items(), key=...), a stable sort.
SortDefinitions(s) ==
    IF s = << >> THEN << >>
    ELSE InsertDefinition(SortDefinitions(SubSeq(s, 1, Len(s) - 1)), s[Len(s)])

\* Lines 505-508 and 564-567: the rankings a call works on, None when it has
\* neither an argument nor stored rankings.
RankingsToUse(rankings_arg, self_rankings) ==
    IF IsNone(rankings_arg) THEN self_rankings ELSE rankings_arg

\* GraphRanker.distribute_ranking_to_definitions.
DistributeOutcome(graph, self_rankings, rankings_arg) ==
    IF IsNone(graph) THEN Raise("ValueError")
    ELSE IF IsNone(RankingsToUse(rankings_arg, self_rankings)) THEN Raise("ValueError")
    ELSE Return(SortDefinitions(Accumulate(
             Contributions(Val(graph), Val(RankingsToUse(rankings_arg, self_rankings))))))

\* A distribution that keeps only the definitions the tags argument lists.
DistributeTagged(graph, self_rankings, tags, rankings_arg) ==
    LET out == DistributeOutcome(graph, self_rankings, rankings_arg)
    IN  IF out.raised # "" THEN out
        ELSE Return(SelectSeq(out.val, LAMBDA d :
                 \E i \in 1..Len(tags) :
                     tags[i].kind = "def" /\ << tags[i].rel_fname, tags[i].name >> = d.k))
\* Lines 481-545: distribute_ranking_to_definitions(tags, rankings); the body
\* never reads tags.
distribute_ranking_to_definitions(graph, self_rankings, tags, rankings_arg) ==
    DistributeOutcome(graph, self_rankings, rankings_arg)

\* ------------------------------------------------------------ Result Selectors
RECURSIVE InsertFile(_, _)
\* e placed after every entry whose rank is not smaller (stable, descending).
InsertFile(s, e) ==
    IF s = << >> THEN << e >>
    ELSE IF e.v > Head(s).v THEN << e >> \o s
    ELSE << Head(s) >> \o InsertFile(Tail(s), e)

RECURSIVE SortFiles(_)
\* Line 579: ranked_files.sort(key=lambda x: x[1], reverse=True).
SortFiles(s) ==
    IF s = << >> THEN << >>
    ELSE InsertFile(SortFiles(SubSeq(s, 1, Len(s) - 1)), s[Len(s)])

\* Lines 581-582: `if limit:` then ranked_files[:limit], limit an Optional natural.
Truncate(ranked_files, limit) ==
    IF ~IsNone(limit) /\ Val(limit) # 0
    THEN SubSeq(ranked_files, 1, Min(Val(limit), Len(ranked_files)))
    ELSE ranked_files

\* GraphRanker.get_top_files_by_rank.
TopFilesOutcome(self_rankings, rankings_arg, exclude_files, limit) ==
    IF IsNone(RankingsToUse(rankings_arg, self_rankings)) THEN Raise("ValueError")
    ELSE Return(Truncate(
             SortFiles(SelectSeq(Val(RankingsToUse(rankings_arg, self_rankings)),
                                 LAMBDA it : it.k \notin exclude_files)),
             limit))

\* ------------------------------------------------------------ inputs
Files == 1..NFiles
NextFile(f) == (f % NFiles) + 1

RECURSIVE Repeat(_, _)
Repeat(e, n) == IF n = 0 THEN << >> ELSE << e >> \o Repeat(e, n - 1)

BuildInput(tags, chat_files, mentioned_idents) ==
    [tags |-> tags, chat_files |-> chat_files, mentioned_idents |-> mentioned_idents]

\* Tag lists: one definition of foo nobody references; foo defined in file 1
\* and referenced k times from file 2; two files that reference each other;
\* foo defined in two files and referenced from the last file, which also
\* holds a private definition nobody references.
Isolated(f) == << Tag(f, foo, "def") >>
Chain(k) == << Tag(1, foo, "def") >> \o Repeat(Tag(2, foo, "ref"), k)
Cycle == << Tag(1, foo, "def"), Tag(2, bar, "def"), Tag(2, foo, "ref"), Tag(1, bar, "ref") >>
Fan == << Tag(1, foo, "def"), Tag(2, foo, "def"), Tag(NFiles, foo, "ref"),
          Tag(NFiles, _foo, "def") >>

\* The builds of the life-cycle specification.
BuildInputs ==
    { BuildInput(<< >>, {}, {}), BuildInput(Isolated(1), {}, {}),
      BuildInput(Isolated(2), {2}, {foo}),
      BuildInput(Chain(1), {}, {}), BuildInput(Cycle, {2}, {foo}) }

\* Personalization arguments: None, a dict on file 1, a dict whose values sum
\* to zero, a dict on a file that is in no graph.
Personalizations ==
    { None, Some(<< [k |-> 1, v |-> 1] >>), Some(<< [k |-> 1, v |-> 0] >>),
      Some(<< [k |-> NFiles + 1, v |-> 1] >>),
      Some(<< [k |-> NFiles + 1, v |-> 1], [k |-> 1, v |-> 1] >>), Some(<< >>) }
MaxIters == { 1, MaxIterDefault }

\* Explicit rankings arguments.
Half == RankScale \div 2
RankingsArgs == { None, Some(<< [k |-> 2, v |-> Half], [k |-> 1, v |-> Half] >>) }
ExcludeSets == { {} }
Limits == { None, Some(1) }

\* ------------------------------------------------------------ the GraphRanker object
VARIABLES
    graph,        \* self.graph: Optional graph
    rankings,     \* self.rankings: Optional dict file -> rank
    metrics,      \* self.metrics: Optional GraphMetrics
    edge_count,   \* self._edge_count
    edge_rank,    \* the `rank` attribute of each edge of the graph (Optional)
    op,           \* the last call: its name and arguments
    ret,          \* what the last call returned or raised
    tiers,        \* the solver calls the last calculate_pagerank made
    built,        \* history: the arguments of the build that made self.graph
    rankedOn,     \* history: the value of built when self.rankings was calculated
    requests,     \* the rank_files_from_tags calls in progress: position and locals
    rankers       \* the fields of the GraphRanker objects those calls constructed

vars ==
    << graph, rankings, metrics, edge_count, edge_rank, op, ret, tiers, built, rankedOn,
       requests, rankers >>
pipeline == << requests, rankers >>
object == << graph, rankings, metrics, edge_count, edge_rank >>

\* Lines 113-118: GraphRanker.__init__.
Init ==
    /\ graph = None
    /\ rankings = None
    /\ metrics = None
    /\ edge_count = 0
    /\ edge_rank = << >>
    /\ op = [name |-> "__init__"]
    /\ ret = Return(<< >>)
    /\ tiers = << >>
    /\ built = None
    /\ rankedOn = None
    /\ requests = << >>
    /\ rankers = << >>

\* build_dependency_graph(tags, chat_files, mentioned_idents).
Build(inputs) ==
    \E b \in inputs :
        LET G == BuildGraph(b.tags, b.chat_files, b.mentioned_idents)
        IN  /\ graph' = Some(G)
            /\ edge_count' = Len(G.edges)
            /\ edge_rank' = Repeat(None, Len(G.edges))
            /\ op' = [name |-> "build_dependency_graph", args |-> b]
            /\ ret' = Return(Some(G))
            /\ built' = Some(b)
            /\ UNCHANGED << pipeline, rankings, metrics, tiers, rankedOn >>

\* calculate_pagerank(personalization, max_iter=max_iter).
Calculate(personalizations, max_iters) ==
    \E personalization \in personalizations, max_iter \in max_iters :
        /\ op' = [name |-> "calculate_pagerank", personalization |-> personalization,
                  max_iter |-> max_iter]
        /\ IF GraphMissing(graph)
           THEN /\ ret' = Raise("ValueError")
                /\ tiers' = << >>
                /\ UNCHANGED << pipeline, object, built, rankedOn >>
           ELSE \E out \in { CalculateOutcome(Val(graph), personalization, max_iter) } :
                /\ tiers' = out.tiers
                /\ IF out.raised # ""
                   THEN /\ ret' = Raise(out.raised)
                        /\ UNCHANGED << pipeline, object, built, rankedOn >>
                   ELSE /\ ret' = Return(out.rankings)
                        /\ rankings' = Some(out.rankings)
                        /\ metrics' = IF Len(Val(graph).nodes) > 0
                                      THEN Some(GraphMetrics(Val(graph), out.iterations_used))
                                      ELSE metrics
                        /\ rankedOn' = built
                        /\ UNCHANGED << pipeline, graph, edge_count, edge_rank, built >>

\* Line 534: the rank stored back on the edges of the nodes that were distributed.
EdgeRanksAfter(g, old, rankings_used) ==
    Eager([ i \in 1..Len(g.edges) |->
        LET e == g.edges[i]
            src_rank == DictGet(rankings_used, e.src, 0)
            total_weight == OutWeight(g, e.src)
        IN  IF src_rank = 0 \/ total_weight = 0 THEN old[i]
            ELSE Some(EdgeRank(src_rank, e.weight, total_weight)) ])

\* The tags arguments of distribute_ranking_to_definitions: no tags, the
\* tags of two files that reference each other.
DistributeTags == { << >>, Cycle }
\* distribute_ranking_to_definitions(tags, rankings). op.repeated is history:
\* the call before this one was the same method with the same rankings.
Distribute(rankings_args) ==
    \E rankings_arg \in rankings_args, tags \in DistributeTags :
        /\ op' = [name |-> "distribute_ranking_to_definitions", rankings |-> rankings_arg,
                  tags |-> tags,
                  repeated |-> /\ op.name = "distribute_ranking_to_definitions"
                               /\ op.rankings = rankings_arg]
        /\ ret' = distribute_ranking_to_definitions(graph, rankings, tags, rankings_arg)
        /\ edge_rank' = IF ret'.raised # "" THEN edge_rank
                        ELSE EdgeRanksAfter(Val(graph), edge_rank,
                                            Val(RankingsToUse(rankings_arg, rankings)))
        /\ UNCHANGED << pipeline, graph, rankings, metrics, edge_count, tiers, built, rankedOn >>

\* get_top_files_by_rank(rankings, exclude_files, limit).
GetTopFiles(rankings_args, exclude_sets, limits) ==
    \E rankings_arg \in rankings_args, exclude_files \in exclude_sets, limit \in limits :
        /\ op' = [name |-> "get_top_files_by_rank", rankings |-> rankings_arg,
                  exclude_files |-> exclude_files, limit |-> limit]
        /\ ret' = TopFilesOutcome(rankings, rankings_arg, exclude_files, limit)
        /\ UNCHANGED << pipeline, object, tiers, built, rankedOn >>

\* A reset that forgets to clear the rankings.
ResetKeepsRankings(self_rankings) ==
    [graph |-> None, rankings |-> self_rankings, metrics |-> None, edge_count |-> 0]
\* Lines 595-601: reset().
ResetFields(self_rankings) ==
    [graph |-> None, rankings |-> None, metrics |-> None, edge_count |-> 0]
Reset ==
    /\ graph' = ResetFields(rankings).graph
    /\ rankings' = ResetFields(rankings).rankings
    /\ metrics' = ResetFields(rankings).metrics
    /\ edge_count' = ResetFields(rankings).edge_count
    /\ edge_rank' = << >>
    /\ op' = [name |-> "reset"]
    /\ ret' = Return(<< >>)
    /\ tiers' = << >>
    /\ built' = None
    /\ rankedOn' = None
    /\ UNCHANGED pipeline

\* Lines 586-593: analyze_graph_properties() returns self.metrics.
AnalyzeGraphProperties ==
    /\ op' = [name |-> "analyze_graph_properties"]
    /\ ret' = Return(metrics)
    /\ UNCHANGED << pipeline, object, tiers, built, rankedOn >>

Next ==
    \/ Build(BuildInputs)
    \/ Calculate(Personalizations, MaxIters)
    \/ Distribute(RankingsArgs)
    \/ GetTopFiles(RankingsArgs, ExcludeSets, Limits)
    \/ AnalyzeGraphProperties
    \/ Reset

Spec == Init /\ [][Next]_vars

\* ------------------------------------------------------------ single calls
\* The specifications below check one operation on all inputs of a bounded
\* set: the initial state holds the ranker and the arguments of the call that
\* is about to be made (op.name = "pending"), the only step makes the call.
Pending == op.name = "pending"

Fresh ==
    /\ graph = None
    /\ rankings = None
    /\ metrics = None
    /\ edge_count = 0
    /\ edge_rank = << >>
    /\ ret = Return(<< >>)
    /\ tiers = << >>
    /\ built = None
    /\ rankedOn = None
    /\ requests = << >>
    /\ rankers = << >>

\* --- get_top_files_by_rank on every rank map, exclude set and limit.
RankValues == { 0, Half, RankScale }
TopRankValues == { Half, RankScale }
\* Every dict of at most NFiles entries, in every key order.
TopRankMaps ==
    { d \in UNION { [1..n -> [k : Files, v : TopRankValues]] : n \in 0..NFiles } :
        \A i, j \in 1..Len(d) : i # j => d[i].k # d[j].k }
TopExcludeSets == { {}, {1}, {1, 2} }
TopLimits == { None } \cup { Some(l) : l \in 0..(NFiles + 1) }

InitTop ==
    /\ Fresh
    /\ op \in { [name |-> "pending", rankings |-> Some(r), exclude_files |-> e, limit |-> l] :
                  r \in TopRankMaps, e \in TopExcludeSets, l \in TopLimits }
CallTop == Pending /\ GetTopFiles({ op.rankings }, { op.exclude_files }, { op.limit })
NextTop == CallTop
SpecTop == InitTop /\ [][NextTop]_vars

\* --- distribute_ranking_to_definitions on built graphs and every rank map.
\* Two symbols defined in file 1, both referenced from file 2.
Twin == << Tag(1, foo, "def"), Tag(1, bar, "def"), Tag(2, foo, "ref"), Tag(2, bar, "ref") >>
\* foo defined in file 1 and referenced from two files, one of them MaxRefs
\* times; the other also references bar, defined in the last file.
Shared == << Tag(1, foo, "def"), Tag(2, foo, "ref"), Tag(NFiles, bar, "def"), Tag(2, bar, "ref") >>
          \o Repeat(Tag(NFiles, foo, "ref"), MaxRefs)
DistBuildInputs ==
    { BuildInput(Isolated(1), {}, {}), BuildInput(Chain(MaxRefs), {2}, {}),
      BuildInput(Cycle, {}, {}), BuildInput(Cycle, {2}, {foo}),
      BuildInput(Fan, {}, {}), BuildInput(Fan, {NFiles}, {foo}),
      BuildInput(Twin, {}, {}), BuildInput(Twin, {}, {bar}),
      BuildInput(Shared, {}, {}), BuildInput(Shared, {2}, {bar}) }
\* Every rank map on the files, each at rank 0, 0.5 or 1.0, and the empty map.
DistRankMaps ==
    { << >> } \cup { [ i \in 1..NFiles |-> [k |-> i, v |-> f[i]] ] : f \in [Files -> RankValues] }

InitDist ==
    /\ \E b \in DistBuildInputs :
          /\ graph = Some(BuildGraph(b.tags, b.chat_files, b.mentioned_idents))
          /\ built = Some(b)
    /\ edge_count = Len(Val(graph).edges)
    /\ edge_rank = Repeat(None, Len(Val(graph).edges))
    /\ rankings = None
    /\ metrics = None
    /\ ret = Return(<< >>)
    /\ tiers = << >>
    /\ rankedOn = None
    /\ requests = << >>
    /\ rankers = << >>
    /\ op \in { [name |-> "pending", rankings |-> Some(r)] : r \in DistRankMaps }
CallDistribute == Pending /\ Distribute({ op.rankings })
NextDist == CallDistribute
SpecDist == InitDist /\ [][NextDist]_vars

\* --- build_dependency_graph around the too-many-definitions threshold.
\* A symbol defined in files 1..d and referenced k times from file d + 1.
Defined(ident, d) == [ i \in 1..d |-> Tag(i, ident, "def") ]
Referenced(ident, d, k) == Defined(ident, d) \o Repeat(Tag(d + 1, ident, "ref"), k)
DefinerCounts == { 1 } \cup { d \in (TooManyDefs - DefSpread)..(TooManyDefs + DefSpread) : d >= 1 }
PenaltyBuildInputs ==
    UNION { { BuildInput(Referenced(ident, d, k), c, m) :
                c \in { {}, {d + 1} }, m \in { {}, {ident} } } :
            ident \in { foo, _foo, process_data }, d \in DefinerCounts, k \in 1..MaxRefs }

\* Tag lists for the edge rules: foo defined twice in file 1 and once in file
\* 2 and never referenced, next to a referenced bar; a private symbol that
\* its own file references k times; references to a symbol nobody defines,
\* one of them from a file with no other tag; two symbols between one pair of
\* files, one referenced twice.
Repeated ==
    << Tag(1, foo, "def"), Tag(1, foo, "def"), Tag(2, foo, "def"), Tag(1, bar, "def"),
       Tag(2, bar, "ref") >>
OwnReference(k) == << Tag(1, _foo, "def") >> \o Repeat(Tag(1, _foo, "ref"), k)
Undefined ==
    << Tag(1, foo, "def"), Tag(2, foo, "ref"), Tag(2, bar, "ref"), Tag(NFiles, bar, "ref") >>
Parallel ==
    << Tag(2, foo, "ref"), Tag(1, foo, "def"), Tag(2, bar, "ref"), Tag(1, bar, "def"),
       Tag(2, foo, "ref") >>
RuleTagLists ==
    { Repeated, Undefined, Parallel, Chain(1), Chain(3 * 3) }
        \cup { OwnReference(k) : k \in 1..MaxRefs }
RuleBuildInputs ==
    { BuildInput(t, c, m) : t \in RuleTagLists, c \in { {}, {1}, {2} }, m \in { {}, {foo} } }

InitBuild ==
    /\ Fresh
    /\ op \in { [name |-> "pending", args |-> b] :
                  b \in PenaltyBuildInputs \cup DistBuildInputs \cup RuleBuildInputs }
CallBuild == Pending /\ Build({ op.args })
NextBuild == CallBuild
SpecBuild == InitBuild /\ [][NextBuild]_vars

\* --- _calculate_identifier_multiplier on names around the length threshold.
MaxPad == 7
MaxWord == 2
NameChars == { LowerA, UpperA, Underscore, Hyphen }
Words == UNION { [1..n -> NameChars] : n \in 1..MaxWord }
\* The test's identifiers (src/pagerank_tests.py lines 26-32).
private_method == << 112, 114, 105, 118, 97, 116, 101, Underscore, 109, 101, 116, 104, 111, 100 >>
_private_method == << Underscore >> \o private_method
simple_var == << 115, 105, 109, 112, 108, 101, Underscore, 118, 97, 114 >>
\* Every word followed by 0..MaxPad letters, and the test's identifiers.
Names ==
    { w \o Repeat(LowerA, n) : w \in Words, n \in 0..MaxPad }
        \cup { foo, process_data, private_method, _private_method, simple_var }
\* The name with and without its leading underscore.
Twins(ident) ==
    IF startswith_underscore(ident) THEN { ident, Tail(ident) }
    ELSE { ident, << Underscore >> \o ident }
InitMult ==
    /\ Fresh
    /\ op \in UNION { { [name |-> "pending", ident |-> n, mentioned_idents |-> m] :
                          m \in SUBSET Twins(n) } : n \in Names }
CallMultiplier ==
    /\ Pending
    /\ op' = [op EXCEPT !.name = "_calculate_identifier_multiplier"]
    /\ ret' = Return(_calculate_identifier_multiplier(op.ident, op.mentioned_idents))
    /\ UNCHANGED << pipeline, object, tiers, built, rankedOn >>
NextMult == CallMultiplier
SpecMult == InitMult /\ [][NextMult]_vars

\* --- Tag construction (lines 39-64).
Space == 32
Tab == 9
Newline == 10
isspace(c) == c \in { Space, Tab, Newline }
RECURSIVE lstrip(_)
lstrip(s) == IF s # << >> /\ isspace(Head(s)) THEN lstrip(Tail(s)) ELSE s
RECURSIVE rstrip(_)
rstrip(s) == IF s # << >> /\ isspace(s[Len(s)]) THEN rstrip(SubSeq(s, 1, Len(s) - 1)) ELSE s
strip(s) == rstrip(lstrip(s))
\* `if not self.name:` in place of `if not self.name.strip():`.
PostInitNameNotEmpty(tag) ==
    IF tag.kind \notin { "def", "ref" } THEN Raise("ValueError")
    ELSE IF tag.name = << >> THEN Raise("ValueError")
    ELSE IF tag.line < 0 THEN Raise("ValueError")
    ELSE Return(tag)
\* Tag.__post_init__ (lines 57-64); the outcome of the construction.
PostInit(tag) ==
    IF tag.kind \notin { "def", "ref" } THEN Raise("ValueError")
    ELSE IF strip(tag.name) = << >> THEN Raise("ValueError")
    ELSE IF tag.line < 0 THEN Raise("ValueError")
    ELSE Return(tag)
\* Tag(rel_fname, fname, line, name, kind): the dataclass __init__ assigns the
\* fields and runs __post_init__.
NewTag(rel_fname, fname, line, name, kind) ==
    PostInit([rel_fname |-> rel_fname, fname |-> fname, line |-> line, name |-> name, kind |-> kind])
\* An assignment to a field of a frozen dataclass (line 39) raises
\* FrozenInstanceError and leaves the object as it was.
SetAttr(tag, field, value) == tag
TagArgs ==
    [ rel_fname : { 1 }, fname : { 1 },
      line : { -1, 0, 1 },
      name : { << >>, << Space >>, << Tab, Newline >>, foo, << Space >> \o foo, _foo },
      kind : { "def", "ref", "definition", "" } ]
Assignments ==
    { [field |-> "kind", value |-> "definition"], [field |-> "name", value |-> << >>],
      [field |-> "line", value |-> -1] }
InitTag ==
    /\ Fresh
    /\ op \in { [name |-> "pending", args |-> a, tag |-> None] : a \in TagArgs }
CallTag ==
    /\ Pending
    /\ LET out == NewTag(op.args.rel_fname, op.args.fname, op.args.line, op.args.name, op.args.kind)
       IN  /\ ret' = out
           /\ op' = [name |-> "Tag", args |-> op.args,
                     tag |-> IF out.raised = "" THEN Some(out.val) ELSE None]
    /\ UNCHANGED << pipeline, object, tiers, built, rankedOn >>
CallSetAttr ==
    /\ op.name \in { "Tag", "setattr" }
    /\ ~IsNone(op.tag)
    /\ \E a \in Assignments :
          op' = [name |-> "setattr", args |-> op.args, assignment |-> a,
                 tag |-> Some(SetAttr(Val(op.tag), a.field, a.value))]
    /\ ret' = Raise("FrozenInstanceError")
    /\ UNCHANGED << pipeline, object, tiers, built, rankedOn >>
NextTag == CallTag \/ CallSetAttr
SpecTag == InitTag /\ [][NextTag]_vars

\* --- analyze_repository_structure (lines 667-689).
\* Tag lists: none, references only, and those of the builds above.
AnalyzeTagLists ==
    { << >>, << Tag(1, foo, "ref") >>, << Tag(1, foo, "ref"), Tag(2, bar, "ref") >> }
        \cup { b.tags : b \in PenaltyBuildInputs \cup DistBuildInputs }
InitAnalyze ==
    /\ Fresh
    /\ op \in { [name |-> "pending", tags |-> t] : t \in AnalyzeTagLists }
\* The whole function: a new ranker, build_dependency_graph(tags),
\* calculate_pagerank(), analyze_graph_properties(), and the test of its
\* result; the variables show the fields of the function's ranker.
CallAnalyze ==
    /\ Pending
    /\ op' = [op EXCEPT !.name = "analyze_repository_structure"]
    /\ UNCHANGED pipeline
    /\ LET G == BuildGraph(op.tags, {}, {})
           out == CalculateOutcome(G, None, MaxIterDefault)
           stored == IF Len(G.nodes) > 0 THEN Some(GraphMetrics(G, out.iterations_used))
                     ELSE None
       IN  /\ graph' = Some(G)
           /\ edge_count' = Len(G.edges)
           /\ edge_rank' = Repeat(None, Len(G.edges))
           /\ built' = Some(BuildInput(op.tags, {}, {}))
           /\ tiers' = out.tiers
           /\ IF out.raised # ""
              THEN /\ ret' = Raise(out.raised)
                   /\ UNCHANGED << rankings, metrics, rankedOn >>
              ELSE /\ rankings' = Some(out.rankings)
                   /\ rankedOn' = built'
                   /\ metrics' = stored
                   /\ ret' = IF IsNone(stored) THEN Raise("RuntimeError")
                             ELSE Return(Val(stored))
NextAnalyze == CallAnalyze
SpecAnalyze == InitAnalyze /\ [][NextAnalyze]_vars

\* ------------------------------------------------------------ Personalization Vector Builder
\* The path of each file. Files are numbered in the order of their paths:
\* calc_data.py, core.py, helper.py, main.py, src/utils.py, utils.py, and
\* z.py, zz.py, ... for the files beyond.
Slash == 47
Dot == 46
LowerZed == << LowerZ >>
DotPy == << Dot, 112, 121 >>
calc_data == << 99, 97, 108, 99, Underscore, 100, 97, 116, 97 >>
core == << 99, 111, 114, 101 >>
helper == << 104, 101, 108, 112, 101, 114 >>
main == << 109, 97, 105, 110 >>
srcdir == << 115, 114, 99 >>
utils == << 117, 116, 105, 108, 115 >>
calculate == << 99, 97, 108, 99, 117, 108, 97, 116, 101 >>
NamedPaths ==
    << calc_data \o DotPy, core \o DotPy, helper \o DotPy, main \o DotPy,
       srcdir \o << Slash >> \o utils \o DotPy, utils \o DotPy >>
PathOf(f) ==
    IF f <= Len(NamedPaths) THEN NamedPaths[f]
    ELSE Flatten(Repeat(LowerZed, f - Len(NamedPaths))) \o DotPy
FileCalcData == 1
FileCore == 2
FileHelper == 3
FileMain == 4
FileSrcUtils == 5
FileUtils == 6

\* Path(file_path).parts for a relative path: the components between the
\* slashes, empty ones dropped.
RECURSIVE parts(_)
parts(path) ==
    IF path = << >> THEN << >>
    ELSE IF \E i \in 1..Len(path) : path[i] = Slash
    THEN LET i == CHOOSE k \in 1..Len(path) :
                      path[k] = Slash /\ \A h \in 1..(k - 1) : path[h] # Slash
         IN  (IF i = 1 THEN << >> ELSE << SubSeq(path, 1, i - 1) >>)
                 \o parts(SubSeq(path, i + 1, Len(path)))
    ELSE << path >>
\* Path(file_path).name: the last component.
basename(path) == IF parts(path) = << >> THEN << >> ELSE parts(path)[Len(parts(path))]
\* os.path.splitext(name)[0]: the name up to its last dot, unless only dots
\* come before that dot.
splitext_root(name) ==
    LET dots == { i \in 1..Len(name) : name[i] = Dot }
    IN  IF dots = {} THEN name
        ELSE LET last == CHOOSE i \in dots : \A j \in dots : j <= i
             IN  IF \E h \in 1..(last - 1) : name[h] # Dot
                 THEN SubSeq(name, 1, last - 1) ELSE name
\* Lines 342-346: components_to_check.
components_to_check(path) ==
    Range(parts(path)) \cup { basename(path), splitext_root(basename(path)) }

\* personalization_boost (line 105) and the scale of the vector's values.
PersonalizationBoost == 100
PersScale == 100 * 100
\* Lines 341-349: some component of the path is a mentioned identifier.
PathMatches(path, mentioned_idents) ==
    mentioned_idents # {} /\ components_to_check(path) \cap mentioned_idents # {}
\* `+=` in place of max(...) for a mentioned file.
current_pers_added(file_path, base_personalize, chat_files, mentioned_files, mentioned_idents) ==
    LET c1 == IF file_path \in chat_files THEN base_personalize ELSE 0
        c2 == IF file_path \in mentioned_files THEN c1 + base_personalize ELSE c1
        c3 == IF PathMatches(PathOf(file_path), mentioned_idents) THEN c2 + base_personalize ELSE c2
    IN  c3
\* Lines 326-353: the value of one file.
current_pers(file_path, base_personalize, chat_files, mentioned_files, mentioned_idents) ==
    LET c1 == IF file_path \in chat_files THEN base_personalize ELSE 0
        c2 == IF file_path \in mentioned_files THEN Max(c1, base_personalize) ELSE c1
        c3 == IF PathMatches(PathOf(file_path), mentioned_idents) THEN c2 + base_personalize ELSE c2
    IN  c3
\* GraphRanker.create_personalization_vector, values in PersScale units.
create_personalization_vector(chat_files, mentioned_files, mentioned_idents, all_files) ==
    LET num_files == IF all_files # {} THEN Cardinality(all_files)
                     ELSE Max(100, Cardinality(chat_files))
        base_personalize == (PersonalizationBoost * PersScale) \div num_files
        files == IterFiles(all_files)
        valued == [ i \in 1..Len(files) |->
                      [k |-> files[i],
                       v |-> current_pers(files[i], base_personalize, chat_files,
                                          mentioned_files, mentioned_idents)] ]
    IN  SelectSeq(valued, LAMBDA it : it.v > 0)

\* --- create_personalization_vector on the files above.
PersAllFiles ==
    { {}, { FileCalcData, FileCore, FileHelper, FileMain, FileUtils }, 1..Len(NamedPaths),
      { FileCore, FileSrcUtils } }
PersChatFiles == { {}, { FileCore }, { FileCore, FileMain } }
PersMentionedFiles == { {}, { FileCore }, { FileUtils } }
PersMentionedIdents ==
    { {}, { calculate }, { core }, { srcdir }, { utils \o DotPy }, { calc_data, foo } }
InitPers ==
    /\ Fresh
    /\ op \in [ name : { "pending" }, chat_files : PersChatFiles,
                 mentioned_files : PersMentionedFiles, mentioned_idents : PersMentionedIdents,
                 all_files : PersAllFiles ]
CallPersonalize ==
    /\ Pending
    /\ op' = [op EXCEPT !.name = "create_personalization_vector"]
    /\ ret' = Return(create_personalization_vector(op.chat_files, op.mentioned_files,
                                                     op.mentioned_idents, op.all_files))
    /\ UNCHANGED << pipeline, object, tiers, built, rankedOn >>
NextPers == CallPersonalize
SpecPers == InitPers /\ [][NextPers]_vars

\* ------------------------------------------------------------ ranking requests
\* rank_files_from_tags (lines 606-664) as the sequence of calls it makes on
\* the ranker it constructs. Two requests run at once; their calls interleave
\* in every order.
Requests == { "first", "second" }

NewRequest(args) ==
    [pc |-> "construct", args |-> args, personalization |-> << >>, rankings |-> << >>,
     file_rankings |-> << >>, definition_rankings |-> << >>, raised |-> "",
     overlapped |-> FALSE]
\* Lines 113-118: the fields of a constructed GraphRanker.
NewRanker ==
    [graph |-> None, rankings |-> None, metrics |-> None, edge_count |-> 0,
     edge_rank |-> << >>]

\* One ranker object that every request works on.
SharedRanker(r) == "first"
\* Line 639: `ranker = GraphRanker(verbose=verbose)`, an object of the call.
RankerOf(r) == r

\* The ranker of request r, once constructed.
ranker(r) == Val(rankers[RankerOf(r)])
\* Line 636: all_files = {tag.rel_fname for tag in tags}.
all_files(tags) == { tags[i].rel_fname : i \in 1..Len(tags) }

InProgress(r) == requests[r].pc \notin { "construct", "done", "raised" }
\* history: a call of r was made while another request was between its
\* construction and its return.
Overlaps(r) == requests[r].overlapped \/ \E o \in Requests \ { r } : InProgress(o)

At(r, pc) == requests[r].pc = pc
Callers == << object, op, ret, tiers, built, rankedOn >>

\* Line 639.
Construct(r) ==
    /\ At(r, "construct")
    /\ rankers' = [rankers EXCEPT ![RankerOf(r)] = Some(NewRanker)]
    /\ requests' = [requests EXCEPT ![r] = [@ EXCEPT !.pc = "build",
                                                     !.overlapped = Overlaps(r)]]
    /\ UNCHANGED Callers

\* Line 642.
RequestBuild(r) ==
    /\ At(r, "build")
    /\ LET a == requests[r].args
           G == BuildGraph(a.tags, a.chat_files, a.mentioned_idents)
       IN  rankers' = [rankers EXCEPT ![RankerOf(r)] =
                          Some([ranker(r) EXCEPT !.graph = Some(G),
                                                 !.edge_count = Len(G.edges),
                                                 !.edge_rank = Repeat(None, Len(G.edges))])]
    /\ requests' = [requests EXCEPT ![r] = [@ EXCEPT !.pc = "personalize",
                                                     !.overlapped = Overlaps(r)]]
    /\ UNCHANGED Callers

\* Lines 645-650.
RequestPersonalize(r) ==
    /\ At(r, "personalize")
    /\ LET a == requests[r].args
       IN  requests' = [requests EXCEPT ![r] =
                           [@ EXCEPT !.pc = "calculate",
                                     !.overlapped = Overlaps(r),
                                     !.personalization =
                                         create_personalization_vector(
                                             a.chat_files, a.mentioned_files,
                                             a.mentioned_idents, all_files(a.tags))]]
    /\ UNCHANGED << rankers, Callers >>

\* Line 653.
RequestCalculate(r) ==
    /\ At(r, "calculate")
    /\ IF GraphMissing(ranker(r).graph)
       THEN /\ requests' = [requests EXCEPT ![r] = [@ EXCEPT !.pc = "raised",
                                                             !.overlapped = Overlaps(r),
                                                             !.raised = "ValueError"]]
            /\ UNCHANGED rankers
       ELSE LET g == Val(ranker(r).graph)
                out == CalculateOutcome(g, Some(requests[r].personalization), MaxIterDefault)
            IN  IF out.raised # ""
                THEN /\ requests' = [requests EXCEPT ![r] =
                                        [@ EXCEPT !.pc = "raised",
                                                  !.overlapped = Overlaps(r),
                                                  !.raised = out.raised]]
                     /\ UNCHANGED rankers
                ELSE /\ requests' = [requests EXCEPT ![r] =
                                        [@ EXCEPT !.pc = "top",
                                                  !.overlapped = Overlaps(r),
                                                  !.rankings = out.rankings]]
                     /\ rankers' = [rankers EXCEPT ![RankerOf(r)] =
                                       Some([ranker(r) EXCEPT
                                           !.rankings = Some(out.rankings),
                                           !.metrics =
                                               IF Len(g.nodes) > 0
                                               THEN Some(GraphMetrics(g, out.iterations_used))
                                               ELSE ranker(r).metrics])]
    /\ UNCHANGED Callers

\* Lines 656-660.
RequestTopFiles(r) ==
    /\ At(r, "top")
    /\ LET a == requests[r].args
           out == TopFilesOutcome(ranker(r).rankings, Some(requests[r].rankings),
                                  a.chat_files, a.limit)
       IN  requests' = [requests EXCEPT ![r] =
                           IF out.raised # ""
                           THEN [@ EXCEPT !.pc = "raised", !.overlapped = Overlaps(r),
                                          !.raised = out.raised]
                           ELSE [@ EXCEPT !.pc = "distribute", !.overlapped = Overlaps(r),
                                          !.file_rankings = out.val]]
    /\ UNCHANGED << rankers, Callers >>

\* Lines 662-664.
RequestDistribute(r) ==
    /\ At(r, "distribute")
    /\ LET out == distribute_ranking_to_definitions(ranker(r).graph, ranker(r).rankings,
                                                    requests[r].args.tags,
                                                    Some(requests[r].rankings))
       IN  IF out.raised # ""
           THEN /\ requests' = [requests EXCEPT ![r] =
                                   [@ EXCEPT !.pc = "raised", !.overlapped = Overlaps(r),
                                             !.raised = out.raised]]
                /\ UNCHANGED rankers
           ELSE /\ requests' = [requests EXCEPT ![r] =
                                   [@ EXCEPT !.pc = "done", !.overlapped = Overlaps(r),
                                             !.definition_rankings = out.val]]
                /\ rankers' = [rankers EXCEPT ![RankerOf(r)] =
                                  Some([ranker(r) EXCEPT !.edge_rank =
                                      EdgeRanksAfter(Val(ranker(r).graph), ranker(r).edge_rank,
                                                     requests[r].rankings)])]
    /\ UNCHANGED Callers

\* rank_files_from_tags run from its first line to its return on a ranker no
\* other call touches: the rank map and the two lists it leaves.
RunAlone(args) ==
    LET G == BuildGraph(args.tags, args.chat_files, args.mentioned_idents)
        personalization ==
            create_personalization_vector(args.chat_files, args.mentioned_files,
                                          args.mentioned_idents, all_files(args.tags))
        out == CalculateOutcome(G, Some(personalization), MaxIterDefault)
        top == TopFilesOutcome(Some(out.rankings), Some(out.rankings), args.chat_files,
                               args.limit)
        dist == distribute_ranking_to_definitions(Some(G), Some(out.rankings), args.tags,
                                                  Some(out.rankings))
    IN  IF out.raised # "" THEN [raised |-> out.raised, rankings |-> << >>,
                                 file_rankings |-> << >>, definition_rankings |-> << >>]
        ELSE [raised |-> "", rankings |-> out.rankings, file_rankings |-> top.val,
              definition_rankings |-> dist.val]

RequestArgs(tags, chat_files, mentioned_idents, mentioned_files, limit) ==
    [tags |-> tags, chat_files |-> chat_files, mentioned_idents |-> mentioned_idents,
     mentioned_files |-> mentioned_files, limit |-> limit]
\* File 1 holds a definition nobody references and a reference to foo, which
\* file 2 defines.
Leaf == << Tag(1, bar, "def"), Tag(1, foo, "ref"), Tag(2, foo, "def") >>
\* The requests: Leaf with file 1 mentioned, out of focus and in focus; Leaf
\* with nothing mentioned, out of focus and in focus; two files that reference
\* each other; two symbols of one file; no tags.
PipeInputs ==
    { RequestArgs(Leaf, {}, {}, {1}, None), RequestArgs(Leaf, {1}, {}, {1}, None),
      RequestArgs(Leaf, {}, {}, {}, None), RequestArgs(Leaf, {1}, {}, {}, None),
      RequestArgs(Cycle, {2}, {foo}, {}, Some(1)), RequestArgs(Twin, {}, {core}, {2}, None),
      RequestArgs(<< >>, {}, {}, {}, None) }

InitPipe ==
    /\ graph = None
    /\ rankings = None
    /\ metrics = None
    /\ edge_count = 0
    /\ edge_rank = << >>
    /\ op = [name |-> "rank_files_from_tags"]
    /\ ret = Return(<< >>)
    /\ tiers = << >>
    /\ built = None
    /\ rankedOn = None
    /\ requests \in { [ r \in Requests |-> NewRequest(a[r]) ] : a \in [Requests -> PipeInputs] }
    /\ rankers = [ r \in Requests |-> None ]
NextPipe ==
    \/ \E r \in Requests : Construct(r)
    \/ \E r \in Requests : RequestBuild(r)
    \/ \E r \in Requests : RequestPersonalize(r)
    \/ \E r \in Requests : RequestCalculate(r)
    \/ \E r \in Requests : RequestTopFiles(r)
    \/ \E r \in Requests : RequestDistribute(r)
SpecPipe == InitPipe /\ [][NextPipe]_vars

\* ------------------------------------------------------------ properties
IsCall(name) == op.name = name
Returned == ret.raised = ""
\* The last call was made without an explicit rankings argument.
NoRankingsArg ==
    /\ op.name \in { "distribute_ranking_to_definitions", "get_top_files_by_rank" }
    /\ IsNone(op.rankings)

\* C1: a distribute_ranking_to_definitions or get_top_files_by_rank call made
\* without a rankings argument that returns (does not raise) works on rankings
\* that were calculated on the graph that is currently built.
C1_NoStaleRankings == (NoRankingsArg /\ Returned) => rankedOn = built

\* C2: calculate_pagerank on a built graph never raises.
C2_CalculateNeverRaises == (IsCall("calculate_pagerank") /\ ~IsNone(graph)) => Returned

\* C3: a calculate_pagerank or distribute_ranking_to_definitions call on a
\* ranker without a graph raises ValueError; a distribute_ranking_to_definitions
\* or get_top_files_by_rank call without a rankings argument raises ValueError
\* when no calculation has completed since construction or the last reset;
\* and a call that fails so leaves graph, rankings, metrics (and the edge
\* count and edge ranks) as they were.
C3_OutOfOrderStep ==
    /\ ( /\ op'.name \in { "calculate_pagerank", "distribute_ranking_to_definitions" }
         /\ IsNone(graph) )
       => (ret'.raised = "ValueError" /\ UNCHANGED object)
    /\ ( /\ op'.name \in { "distribute_ranking_to_definitions", "get_top_files_by_rank" }
         /\ IsNone(op'.rankings)
         /\ IsNone(rankedOn) )
       => (ret'.raised = "ValueError" /\ UNCHANGED object)
C3_OutOfOrderFails == [][C3_OutOfOrderStep]_vars
\* A graph is built, nothing was calculated, and distribute raised ValueError.
C3_Witness ==
    /\ IsCall("distribute_ranking_to_definitions") /\ IsNone(op.rankings)
    /\ ~IsNone(graph) /\ IsNone(rankedOn) /\ ret.raised = "ValueError"

\* C4: the cascade. Tier 1's result is returned whenever Tier 1 succeeds;
\* Tier 2 runs exactly when Tier 1 raised ZeroDivisionError, and its result is
\* returned when it succeeds.
C4_Order ==
    (IsCall("calculate_pagerank") /\ tiers # << >>) =>
        /\ tiers[1].status = "ok" => ret = Return(tiers[1].val)
        /\ Len(tiers) = 2 <=> tiers[1].status = "ZeroDivisionError"
        /\ (Len(tiers) = 2 /\ tiers[2].status = "ok") => ret = Return(tiers[2].val)
\* The last calculate_pagerank returned the empty map although no solver call
\* succeeded (the fallback of lines 440 and 445).
FallbackEmpty ==
    /\ IsCall("calculate_pagerank") /\ tiers # << >>
    /\ ret = Return(<< >>) /\ tiers[Len(tiers)].status # "ok"
\* C4 as stated: and the empty rank map is returned only when Tier 2 was
\* attempted and was also degenerate.
C4_EmptyOnlyAfterTier2 ==
    /\ C4_Order
    /\ FallbackEmpty => (Len(tiers) = 2 /\ tiers[2].status = "ZeroDivisionError")
\* C4 as amended: the empty rank map is returned as a fallback only when Tier 2
\* was attempted and was also degenerate, or when Tier 1 failed with an error
\* other than ZeroDivisionError (Tier 2 is then not attempted).
C4_Cascade ==
    /\ C4_Order
    /\ FallbackEmpty =>
           \/ Len(tiers) = 2 /\ tiers[2].status = "ZeroDivisionError"
           \/ Len(tiers) = 1 /\ tiers[1].status \notin { "ok", "ZeroDivisionError" }
\* Tier 1 raised ZeroDivisionError and the call returned Tier 2's non-empty result.
C4_Witness ==
    /\ IsCall("calculate_pagerank") /\ Len(tiers) = 2
    /\ tiers[1].status = "ZeroDivisionError" /\ tiers[2].status = "ok"
    /\ ret = Return(tiers[2].val) /\ ret.val # << >>

\* The build that made the current graph had one tag, a definition.
SingleDefinitionBuilt ==
    /\ ~IsNone(built)
    /\ Len(Val(built).tags) = 1
    /\ Val(built).tags[1].kind = "def"

\* C8: after a build from a single definition tag, calculate_pagerank returns
\* the rank map with the defining file as its only key, at rank 1.0.
C8_SelfLoopSafety ==
    (IsCall("calculate_pagerank") /\ SingleDefinitionBuilt) =>
        ret = Return(<< [k |-> Val(built).tags[1].rel_fname, v |-> RankScale] >>)
C8_Witness ==
    /\ IsCall("calculate_pagerank") /\ SingleDefinitionBuilt
    /\ Val(graph).edges[1].src = Val(graph).edges[1].dst
    /\ ret.val = << [k |-> Val(built).tags[1].rel_fname, v |-> RankScale] >>

EmptyBuilt == ~IsNone(built) /\ Val(built).tags = << >>

\* C9: a build from the empty tag list yields a graph without nodes and
\* edges, and calculate_pagerank on it returns the empty rank map.
C9_EmptyInput ==
    EmptyBuilt =>
        /\ Val(graph).nodes = << >> /\ Val(graph).edges = << >>
        /\ IsCall("calculate_pagerank") => ret = Return(<< >>)
C9_Witness == EmptyBuilt /\ IsCall("calculate_pagerank") /\ ret = Return(<< >>)


\* --- distribution (SpecDist)
Distributed == IsCall("distribute_ranking_to_definitions") /\ Returned
\* The nodes with positive rank and at least one outgoing edge.
PositiveSources(g, r) ==
    { n \in Range(g.nodes) : DictGet(r, n, 0) > 0 /\ OutEdges(g, n) # << >> }
EdgesFrom(g, S) == { i \in 1..Len(g.edges) : g.edges[i].src \in S }
\* The sum of the ranks the call stored on the edges of the set I.
RECURSIVE StoredRank(_)
StoredRank(I) ==
    IF I = {} THEN 0
    ELSE LET i == CHOOSE x \in I : TRUE IN Val(edge_rank[i]) + StoredRank(I \ {i})
RECURSIVE RankOf(_, _)
RankOf(r, S) ==
    IF S = {} THEN 0
    ELSE LET n == CHOOSE x \in S : TRUE IN DictGet(r, n, 0) + RankOf(r, S \ {n})

\* C5: the ranks distribute_ranking_to_definitions hands to the outgoing edges
\* of a node with positive rank add up to the rank of the node, and the
\* returned definition ranks add up to the rank of all such nodes; in fixed
\* point each edge rank is rounded down, so a sum falls short of the rank by
\* less than one unit (1 / RankScale) per edge.
C5_RankConserved ==
    Distributed =>
        LET g == Val(graph)
            r == Val(op.rankings)
            S == PositiveSources(g, r)
        IN  /\ \A n \in S :
                  /\ \A i \in EdgesFrom(g, {n}) : ~IsNone(edge_rank[i])
                  /\ StoredRank(EdgesFrom(g, {n})) <= DictGet(r, n, 0)
                  /\ StoredRank(EdgesFrom(g, {n})) > DictGet(r, n, 0) - Cardinality(EdgesFrom(g, {n}))
            /\ SumSeq([ i \in 1..Len(ret.val) |-> ret.val[i].v ]) = StoredRank(EdgesFrom(g, S))
            /\ SumSeq([ i \in 1..Len(ret.val) |-> ret.val[i].v ]) <= RankOf(r, S)
            /\ S # {} => SumSeq([ i \in 1..Len(ret.val) |-> ret.val[i].v ])
                             > RankOf(r, S) - Cardinality(EdgesFrom(g, S))
\* A node with positive rank and outgoing edges of different weights was
\* distributed, and another node contributed too.
C5_Witness ==
    /\ Distributed
    /\ Cardinality(PositiveSources(Val(graph), Val(op.rankings))) >= 2
    /\ \E n \in PositiveSources(Val(graph), Val(op.rankings)) :
          /\ \E i, j \in EdgesFrom(Val(graph), {n}) :
                Val(graph).edges[i].weight # Val(graph).edges[j].weight
          /\ StoredRank(EdgesFrom(Val(graph), {n})) > 0

C6_TopFiles ==
    (IsCall("get_top_files_by_rank") /\ Returned) =>
        LET kept == SelectSeq(Val(op.rankings), LAMBDA it : it.k \notin op.exclude_files)
            L == ret.val
        IN  /\ Len(L) = IF IsNone(op.limit) THEN Len(kept) ELSE Min(Val(op.limit), Len(kept))
            /\ \A i \in 1..Len(L) : L[i] \in Range(kept)
            /\ \A i, j \in 1..Len(L) : i < j => (L[i].k # L[j].k /\ L[i].v >= L[j].v)
            /\ \A e \in Range(kept) \ Range(L) : \A i \in 1..Len(L) : L[i].v >= e.v

\* --- the too-many-definitions penalty (SpecBuild)
\* The tags with the symbol defined in one file only: its first defining file.
OneDefiner(tags, ident) ==
    LET first == CHOOSE f \in Definers(tags, ident) : \A h \in Definers(tags, ident) : f <= h
    IN  SelectSeq(tags, LAMBDA t : ~(t.kind = "def" /\ t.name = ident /\ t.rel_fname # first))
\* The weight the reference of ident from file src gets in graph g.
WeightFrom(g, src, ident) ==
    g.edges[CHOOSE i \in 1..Len(g.edges) : g.edges[i].src = src /\ g.edges[i].ident = ident].weight

\* C10: every edge of a referenced symbol that is defined in more than 5
\* files weighs exactly 0.1 times the edge the same references get when the
\* symbol is defined in one file; with 5 or fewer defining files it weighs
\* the same.
C10_TooManyDefinitions ==
    (IsCall("build_dependency_graph") /\ ~IsNone(built)) =>
        LET b == Val(built)
            g == Val(graph)
        IN  \A i \in 1..Len(g.edges) :
                LET e == g.edges[i]
                    one == BuildGraph(OneDefiner(b.tags, e.ident), b.chat_files, b.mentioned_idents)
                IN  e.ident \in ReferenceKeys(b.tags) =>
                        IF Cardinality(Definers(b.tags, e.ident)) > 5
                        THEN 10 * e.weight = WeightFrom(one, e.src, e.ident)
                        ELSE e.weight = WeightFrom(one, e.src, e.ident)
\* A symbol defined in 6 files was built, its edges at a tenth of the weight.
C10_Witness ==
    /\ IsCall("build_dependency_graph") /\ ~IsNone(built)
    /\ Len(Val(graph).edges) = 6
    /\ Cardinality(Definers(Val(built).tags, Val(graph).edges[1].ident)) = 6
    /\ 10 * Val(graph).edges[1].weight =
          WeightFrom(BuildGraph(OneDefiner(Val(built).tags, Val(graph).edges[1].ident),
                                Val(built).chat_files, Val(built).mentioned_idents),
                     Val(graph).edges[1].src, Val(graph).edges[1].ident)

\* --- the identifier multiplier (SpecMult)
MultiplierOf == IsCall("_calculate_identifier_multiplier") /\ Returned
\* The call was made on '_' + s, s not starting with '_', with both or
\* neither of the two names mentioned.
PrivateTwinCall ==
    /\ MultiplierOf
    /\ startswith_underscore(op.ident)
    /\ ~startswith_underscore(Tail(op.ident))
    /\ (op.ident \in op.mentioned_idents) <=> (Tail(op.ident) \in op.mentioned_idents)
\* The name counts as well-formed and long (rule 3 of the multiplier).
LongWellFormed(ident) ==
    (is_snake(ident) \/ is_kebab(ident) \/ is_camel(ident)) /\ Len(ident) >= 8

\* C11 as stated: the multiplier of '_' + s is exactly 0.1 times the
\* multiplier of s, for every s not starting with '_' and every mentioned
\* set holding both or neither of the two names.
C11_PrivateTenth ==
    PrivateTwinCall =>
        10 * ret.val = _calculate_identifier_multiplier(Tail(op.ident), op.mentioned_idents)
\* C11 as amended: the same, for the names s such that s and '_' + s both
\* count or both do not count as well-formed and long.
C11_PrivateTenthSameLength ==
    (PrivateTwinCall /\ (LongWellFormed(op.ident) <=> LongWellFormed(Tail(op.ident)))) =>
        10 * ret.val = _calculate_identifier_multiplier(Tail(op.ident), op.mentioned_idents)
\* The multiplier of _private_method was taken, a tenth of private_method's.
C11_Witness ==
    /\ PrivateTwinCall
    /\ op.ident = _private_method /\ op.mentioned_idents = {}
    /\ ret.val = MultScale
    /\ _calculate_identifier_multiplier(private_method, {}) = 10 * MultScale

\* C19: an identifier that starts with '_' and is not mentioned gets the
\* multiplier 0.1.
C19_PrivateMultiplier ==
    (MultiplierOf /\ startswith_underscore(op.ident) /\ op.ident \notin op.mentioned_idents) =>
        10 * ret.val = MultScale

\* --- Tag (SpecTag)
\* The name is empty or holds white space only.
Blank(name) == \A i \in 1..Len(name) : isspace(name[i])
BadTagArgs(a) == a.kind \notin { "def", "ref" } \/ Blank(a.name) \/ a.line < 0

\* C16: constructing a Tag with a kind other than 'def' and 'ref', an empty or
\* blank name or a negative line raises ValueError and yields no Tag; a Tag
\* that exists has kind def or ref, a non-empty name and line >= 0, and keeps
\* the fields it was constructed with whatever is assigned to it.
C16_TagInvariant ==
    /\ (IsCall("Tag") /\ BadTagArgs(op.args)) => (ret.raised = "ValueError" /\ IsNone(op.tag))
    /\ (IsCall("Tag") /\ ~BadTagArgs(op.args)) => (Returned /\ ~IsNone(op.tag))
    /\ (op.name \in { "Tag", "setattr" } /\ ~IsNone(op.tag)) =>
           /\ Val(op.tag).kind \in { "def", "ref" }
           /\ Val(op.tag).name # << >>
           /\ Val(op.tag).line >= 0
           /\ Val(op.tag) = op.args
    /\ IsCall("setattr") => ret.raised = "FrozenInstanceError"
\* A blank name was rejected.
C16_Witness ==
    /\ IsCall("Tag") /\ op.args.kind = "def" /\ op.args.line = 0
    /\ op.args.name = << Tab, Newline >>
    /\ ret.raised = "ValueError" /\ IsNone(op.tag)

\* --- the edges of a built graph (SpecBuild)
\* C17: every edge of a graph that build_dependency_graph produced has a
\* strictly positive weight and a symbol name, and the file it points to
\* holds a definition tag of that symbol.
C17_EdgesWellFormed ==
    (IsCall("build_dependency_graph") /\ ~IsNone(built)) =>
        \A i \in 1..Len(Val(graph).edges) :
            LET e == Val(graph).edges[i]
            IN  /\ e.weight > 0
                /\ e.ident # << >>
                /\ \E j \in 1..Len(Val(built).tags) :
                      /\ Val(built).tags[j].kind = "def"
                      /\ Val(built).tags[j].name = e.ident
                      /\ Val(built).tags[j].rel_fname = e.dst
\* A graph was built with an edge of a private symbol defined in more than 5
\* files, whose weight is the smallest the builder gives (0.1 * 0.1 of the
\* base).
C17_Witness ==
    /\ IsCall("build_dependency_graph") /\ ~IsNone(built)
    /\ \E i \in 1..Len(Val(graph).edges) :
          /\ Val(graph).edges[i].ident = _foo
          /\ Val(graph).edges[i].src # Val(graph).edges[i].dst
          /\ 100 * Val(graph).edges[i].weight = WeightScale

\* --- the rank map of calculate_pagerank (Spec)
\* C13: a non-empty rank map returned by calculate_pagerank has every value
\* in [0, 1] and its values sum to 1.0 within 1e-2.
C13_MassConserved ==
    (IsCall("calculate_pagerank") /\ Returned /\ ret.val # << >>) =>
        /\ \A i \in 1..Len(ret.val) : ret.val[i].v >= 0 /\ ret.val[i].v <= RankScale
        /\ Abs(SumSeq([ i \in 1..Len(ret.val) |-> ret.val[i].v ]) - RankScale) <= RankScale \div 100
\* A rank map was returned for a graph with a node without outgoing edges,
\* whose rank the solver has to redistribute.
C13_Witness ==
    /\ IsCall("calculate_pagerank") /\ Returned /\ Len(ret.val) >= 2
    /\ \E n \in Range(Val(graph).nodes) : OutEdges(Val(graph), n) = << >>
    /\ Abs(SumSeq([ i \in 1..Len(ret.val) |-> ret.val[i].v ]) - RankScale) <= RankScale \div 100

\* --- analyze_repository_structure (SpecAnalyze)
\* C18: analyze_repository_structure returns a GraphMetrics for every list of
\* valid tags, and the nodes and edges it reports are those of the graph
\* built from the tags.
C18_AnalyzeReturnsMetrics ==
    IsCall("analyze_repository_structure") =>
        /\ Returned
        /\ ret.val.nodes = Cardinality({ Val(graph).edges[i].src : i \in 1..Len(Val(graph).edges) }
                                       \cup { Val(graph).edges[i].dst : i \in 1..Len(Val(graph).edges) })
        /\ ret.val.edges = Len(Val(graph).edges)

\* --- the personalization vector (SpecPers)
\* C20: with chat_files = {main.py, core.py}, mentioned_files = {utils.py},
\* mentioned_idents = {calculate} and all_files = {main.py, core.py,
\* utils.py, helper.py, calc_data.py}, the vector holds main.py, core.py,
\* utils.py and calc_data.py and does not hold helper.py.
C20_PathMatchBoost ==
    ( /\ IsCall("create_personalization_vector")
      /\ op.chat_files = { FileMain, FileCore }
      /\ op.mentioned_files = { FileUtils }
      /\ op.mentioned_idents = { calculate }
      /\ op.all_files = { FileMain, FileCore, FileUtils, FileHelper, FileCalcData } )
    => /\ { FileMain, FileCore, FileUtils, FileCalcData } \subseteq DictKeys(ret.val)
       /\ FileHelper \notin DictKeys(ret.val)

\* --- ranking requests (SpecPipe)
Finished(r) == requests[r].pc \in { "done", "raised" }
\* What a finished request hands back: the exception it raised if any, its
\* rank map (a dict: the order of the entries is not part of it) and its
\* definition ranks in order.
Outcome(res) ==
    [raised |-> res.raised, rankings |-> Range(res.rankings),
     definition_rankings |-> res.definition_rankings]
\* Request r is request u with file F added to the focused files.
FocusAdded(r, u, F) ==
    /\ F \in requests[r].args.chat_files
    /\ requests[u].args = [requests[r].args EXCEPT !.chat_files = @ \ { F }]

\* C12: of two finished requests that differ only in that file F is focused
\* in one and not in the other, the focused one ranks F at least as high.
C12_FocusMonotone ==
    \A r, u \in Requests : \A F \in Files :
        (At(r, "done") /\ At(u, "done") /\ FocusAdded(r, u, F))
            => DictGet(requests[r].rankings, F, 0) >= DictGet(requests[u].rankings, F, 0)

BuildDone == IsCall("build_dependency_graph") /\ ~IsNone(built)
DefinedIdents(tags) == Range(DefineKeys(tags))
\* The positions of the edges of g labelled ident that run from src to dst.
EdgesAt(g, from, to, ident) ==
    { i \in 1..Len(g.edges) :
        g.edges[i].src = from /\ g.edges[i].dst = to /\ g.edges[i].ident = ident }
IsolationEdge(e) == e.src = e.dst /\ 10 * e.weight = WeightScale

\* C22 as stated: an unreferenced symbol has exactly one self-edge of weight
\* 0.1 on each defining file and no other edge, and no referenced symbol
\* labels a self-edge of weight 0.1.
C22_SelfEdges ==
    BuildDone =>
        LET b == Val(built)
            g == Val(graph)
        IN  \A s \in DefinedIdents(b.tags) :
                IF s \notin ReferenceKeys(b.tags)
                THEN /\ \A f \in Definers(b.tags, s) :
                          /\ Cardinality(EdgesAt(g, f, f, s)) = 1
                          /\ \A i \in EdgesAt(g, f, f, s) : IsolationEdge(g.edges[i])
                     /\ \A i \in 1..Len(g.edges) :
                          g.edges[i].ident = s => IsolationEdge(g.edges[i])
                ELSE \A i \in 1..Len(g.edges) :
                          g.edges[i].ident = s => ~IsolationEdge(g.edges[i])
\* C22, amended: an unreferenced symbol has exactly one self-edge of weight
\* 0.1 on each defining file and no other edge, whatever the focused files
\* and mentioned symbols; every edge of a referenced symbol runs from a file
\* that references it to a file that defines it.
C22_SelfEdgesUnreferenced ==
    BuildDone =>
        LET b == Val(built)
            g == Val(graph)
        IN  \A s \in DefinedIdents(b.tags) :
                IF s \notin ReferenceKeys(b.tags)
                THEN /\ \A f \in Definers(b.tags, s) :
                          /\ Cardinality(EdgesAt(g, f, f, s)) = 1
                          /\ \A i \in EdgesAt(g, f, f, s) : IsolationEdge(g.edges[i])
                     /\ \A i \in 1..Len(g.edges) :
                          g.edges[i].ident = s => IsolationEdge(g.edges[i])
                ELSE \A i \in 1..Len(g.edges) :
                          g.edges[i].ident = s =>
                              /\ g.edges[i].src \in Range(References(b.tags, s))
                              /\ g.edges[i].dst \in Definers(b.tags, s)
\* foo, mentioned, defined twice in the focused file 1 and once in file 2 and
\* never referenced, was built into one self-edge of weight 0.1 per file.
C22_Witness ==
    /\ BuildDone
    /\ Val(built).tags = Repeated
    /\ Val(built).chat_files = {1} /\ Val(built).mentioned_idents = {foo}
    /\ \A f \in {1, 2} : Cardinality(EdgesAt(Val(graph), f, f, foo)) = 1

ConnectedIdents(tags) == DefinedIdents(tags) \cap ReferenceKeys(tags)
\* The files that an edge rule touches: the definers of an unreferenced
\* symbol, the referencers and the definers of a connected one.
LinkedFiles(tags) ==
    UNION { IF s \in ReferenceKeys(tags)
            THEN Definers(tags, s) \cup Range(References(tags, s))
            ELSE Definers(tags, s) : s \in DefinedIdents(tags) }

\* C23: a symbol with definitions and references labels exactly one edge for
\* each pair of a file that references it and a file that defines it, and no
\* other edge; a symbol that is referenced and never defined labels no edge,
\* and the nodes of the graph are the files the edge rules link.
C23_OneEdgePerPair ==
    BuildDone =>
        LET b == Val(built)
            g == Val(graph)
        IN  /\ \A s \in ConnectedIdents(b.tags) :
                  /\ \A x \in Range(References(b.tags, s)), y \in Definers(b.tags, s) :
                        Cardinality(EdgesAt(g, x, y, s)) = 1
                  /\ Cardinality({ i \in 1..Len(g.edges) : g.edges[i].ident = s })
                        = Cardinality(Range(References(b.tags, s)))
                            * Cardinality(Definers(b.tags, s))
            /\ \A s \in ReferenceKeys(b.tags) \ DefinedIdents(b.tags) :
                  \A i \in 1..Len(g.edges) : g.edges[i].ident # s
            /\ Range(g.nodes) = LinkedFiles(b.tags)
            /\ Len(g.nodes) = Cardinality(LinkedFiles(b.tags))
\* File 2 references foo twice and bar once, both defined in file 1: the
\* graph holds two parallel edges from 2 to 1, one per symbol.
C23_Witness ==
    /\ BuildDone
    /\ Val(built).tags = Parallel
    /\ Len(Val(graph).edges) = 2
    /\ Cardinality(EdgesAt(Val(graph), 2, 1, foo)) = 1
    /\ Cardinality(EdgesAt(Val(graph), 2, 1, bar)) = 1

\* The edge of a referenced symbol, as opposed to the self-edge of an
\* unreferenced one.
ReferenceEdge(tags, e) == e.ident \in ReferenceKeys(tags)

\* C24: the edge of symbol s from referencing file X weighs base(s) times 50
\* if X is focused times the square root of the number of reference tags of
\* s in X; built from 9 references it weighs 3 times what it weighs built
\* from 1 reference, and it weighs 50 times what it weighs when X is taken
\* out of the focused files.
C24_EdgeWeight ==
    BuildDone =>
        LET b == Val(built)
            g == Val(graph)
        IN  \A i \in 1..Len(g.edges) :
                LET e == g.edges[i]
                    n == Count(References(b.tags, e.ident), e.src)
                    base == BaseMultiplier(e.ident, Cardinality(Definers(b.tags, e.ident)),
                                           b.mentioned_idents)
                    unfocused == BuildGraph(b.tags, b.chat_files \ { e.src }, b.mentioned_idents)
                    once == BuildGraph(Chain(1), b.chat_files, b.mentioned_idents)
                IN  ReferenceEdge(b.tags, e) =>
                        /\ e.weight = base * (IF e.src \in b.chat_files THEN 50 ELSE 1) * sqrt(n)
                        /\ n = 1 => e.weight = base * (IF e.src \in b.chat_files THEN 50 ELSE 1)
                                                    * SqrtScale
                        /\ e.src \in b.chat_files =>
                               e.weight = 50 * WeightFrom(unfocused, e.src, e.ident)
                        /\ b.tags = Chain(3 * 3) =>
                               e.weight = 3 * WeightFrom(once, e.src, e.ident)
\* foo, mentioned, referenced 9 times from the focused file 2: the edge
\* weighs 10 * 50 * 3.
C24_Witness ==
    /\ BuildDone
    /\ Val(built) = BuildInput(Chain(3 * 3), {2}, {foo})
    /\ Len(Val(graph).edges) = 1
    /\ Val(graph).edges[1].weight = 10 * 50 * 3 * WeightScale

\* --- the order of the tag list (SpecBuild)
\* The edges of a graph as a multiset of (source, target, symbol, weight).
EdgeBag(g) == [ e \in Range(g.edges) |-> Count(g.edges, e) ]
SameGraph(g, h) == EdgeBag(g) = EdgeBag(h) /\ Range(g.nodes) = Range(h.nodes)
Permuted(tags, p) == [ i \in 1..Len(tags) |-> tags[p[i]] ]
Swapped(tags, i) ==
    [ j \in 1..Len(tags) |-> IF j = i THEN tags[i + 1] ELSE IF j = i + 1 THEN tags[i] ELSE tags[j] ]
Reversed(tags) == [ i \in 1..Len(tags) |-> tags[Len(tags) + 1 - i] ]
\* The reorderings tried: all of them for a short list; for a longer one the
\* reversal and every exchange of two neighbours.
Reorderings(tags) ==
    IF Len(tags) <= PermLen
    THEN { Permuted(tags, p) : p \in Permutations(1..Len(tags)) }
    ELSE { Reversed(tags) } \cup { Swapped(tags, i) : i \in 1..(Len(tags) - 1) }
\* The tag list with one of its definition tags repeated, at the end or at
\* the front.
Repetitions(tags) ==
    UNION { { tags \o << tags[i] >>, << tags[i] >> \o tags } :
            i \in { j \in 1..Len(tags) : tags[j].kind = "def" } }

\* C29: the graph built from a tag list has the same multiset of edges and
\* the same node set as the graph built from any reordering of the list and
\* from the list with a definition tag repeated.
C29_OrderIndependent ==
    BuildDone =>
        LET b == Val(built)
        IN  \A t \in Reorderings(b.tags) \cup Repetitions(b.tags) :
                SameGraph(BuildGraph(t, b.chat_files, b.mentioned_idents), Val(graph))
\* A list whose reversal builds the same edges in another order was built.
C29_Witness ==
    /\ BuildDone
    /\ Len(Val(graph).edges) >= 2
    /\ \E t \in Reorderings(Val(built).tags) :
          /\ BuildGraph(t, Val(built).chat_files, Val(built).mentioned_idents).edges
                # Val(graph).edges
          /\ EdgeBag(BuildGraph(t, Val(built).chat_files, Val(built).mentioned_idents))
                = EdgeBag(Val(graph))

\* --- the rules of the identifier multiplier (SpecMult)
Has(ident, chars) == \E i \in 1..Len(ident) : ident[i] \in chars
Letters == (UpperA..UpperZ) \cup (LowerA..LowerZ)
\* Rule 3 of the multiplier, from its wording.
LongAndWellFormed(ident) ==
    /\ Len(ident) >= 8
    /\ \/ Has(ident, { Underscore }) /\ Has(ident, Letters)
       \/ Has(ident, { Hyphen }) /\ Has(ident, Letters)
       \/ Has(ident, UpperA..UpperZ) /\ Has(ident, LowerA..LowerZ)

Personalized == IsCall("create_personalization_vector") /\ Returned
\* A directory segment, the file name or the file name without its extension
\* is a mentioned symbol.
NameMentioned(f, mentioned_idents) ==
    \E c \in components_to_check(PathOf(f)) : c \in mentioned_idents

Contributors(g, r, dst, ident) ==
    { i \in 1..Len(g.edges) :
        /\ g.edges[i].dst = dst /\ g.edges[i].ident = ident
        /\ DictGet(r, g.edges[i].src, 0) > 0 }
\* rank_map[n] * weight / total outgoing weight of n, for the edge at i.
Share(g, r, i) ==
    MulDiv(DictGet(r, g.edges[i].src, 0), g.edges[i].weight,
           SumSeq([ j \in 1..Len(g.edges) |->
                      IF g.edges[j].src = g.edges[i].src THEN g.edges[j].weight ELSE 0 ]))
RECURSIVE ShareSum(_, _, _)
ShareSum(g, r, I) ==
    IF I = {} THEN 0
    ELSE LET i == CHOOSE x \in I : TRUE IN Share(g, r, i) + ShareSum(g, r, I \ {i})

\* C27: the list distribute_ranking_to_definitions returns has one entry for
\* each key (dst, symbol) that an edge from a node of positive rank reaches,
\* and its value is the sum of rank * weight / total outgoing weight over
\* all those edges.
C27_DefinitionRank ==
    Distributed =>
        LET g == Val(graph)
            r == Val(op.rankings)
            keys == { << g.edges[i].dst, g.edges[i].ident >> : i \in 1..Len(g.edges) }
        IN  /\ DictKeys(ret.val) \subseteq keys
            /\ Len(ret.val) = Cardinality(DictKeys(ret.val))
            /\ \A k \in keys :
                  /\ k \in DictKeys(ret.val) <=> Contributors(g, r, k[1], k[2]) # {}
                  /\ DictGet(ret.val, k, 0) = ShareSum(g, r, Contributors(g, r, k[1], k[2]))
\* foo of file 1 was ranked from two referencing files of positive rank,
\* while a third node of rank zero gave nothing.
C27_Witness ==
    /\ Distributed
    /\ Cardinality({ Val(graph).edges[i].src :
                       i \in Contributors(Val(graph), Val(op.rankings), 1, foo) }) >= 2
    /\ \E n \in Range(Val(graph).nodes) : DictGet(Val(op.rankings), n, 0) = 0
    /\ DictGet(ret.val, << 1, foo >>, 0) > 0

\* --- what distribute_ranking_to_definitions changes (Spec)
DistributeCall == IsCall("distribute_ranking_to_definitions")
Calculated == IsCall("calculate_pagerank") /\ ~IsNone(graph) /\ tiers # << >>
\* The entries of the personalization argument on nodes of the graph.
OnNodes(g, personalization) ==
    IF IsNone(personalization) THEN << >>
    ELSE SelectSeq(Val(personalization), LAMBDA it : \E i \in 1..Len(g.nodes) : g.nodes[i] = it.k)

\* C21: Tier 1 of calculate_pagerank is the solver run with the entries of
\* the personalization that are on nodes of the graph as restart and as
\* dangling distribution; when there is none, Tier 1 is the unpersonalized
\* solver run and the call returns what a call without personalization
\* returns.
C21_PersonalizationFiltered ==
    Calculated =>
        LET g == Val(graph)
            kept == OnNodes(g, op.personalization)
        IN  IF kept = << >>
            THEN /\ tiers[1] = pagerank(g, None, None, op.max_iter)
                 /\ ret = LET plain == CalculateOutcome(g, None, op.max_iter)
                          IN  IF plain.raised # "" THEN Raise(plain.raised)
                              ELSE Return(plain.rankings)
            ELSE tiers[1] = pagerank(g, Some(kept), Some(kept), op.max_iter)
\* A personalization with an entry on file 1 and an entry on a file that is
\* not in the graph was used on a graph of several nodes, and Tier 1
\* succeeded with a rank map that is not the unpersonalized one.
C21_Witness ==
    /\ Calculated /\ Returned
    /\ ~IsNone(op.personalization) /\ Len(Val(op.personalization)) = 2
    /\ Len(Val(graph).nodes) >= 2
    /\ tiers[1].status = "ok"
    /\ tiers[1] # pagerank(Val(graph), None, None, op.max_iter)

\* --- the metrics analyze_graph_properties returns (Spec)
\* C28: analyze_graph_properties returns None when the ranker holds no
\* graph, and the metrics it returns otherwise count the nodes, edges and
\* self-loops of the graph the ranker holds.
C28_MetricsCurrent ==
    IsCall("analyze_graph_properties") =>
        IF IsNone(graph) THEN ret.val = None
        ELSE ~IsNone(ret.val) =>
                 /\ Val(ret.val).nodes = Len(Val(graph).nodes)
                 /\ Val(ret.val).edges = Len(Val(graph).edges)
                 /\ Val(ret.val).self_loops
                        = Cardinality({ i \in 1..Len(Val(graph).edges) :
                                          Val(graph).edges[i].src = Val(graph).edges[i].dst })

====
